---- MODULE Spec2Model ----
(***************************************************************************)
(* Model of pyl_classes.h (namespace Python): the method-definition table  *)
(* MethodDefinitions and the reference-counted handle Python::Object.      *)
(*                                                                         *)
(* Foreign (CPython) objects are numbered 1..MaxObj, 0 is the NULL         *)
(* pointer; object numbers are never reused.  rc[o] is a ledger of the     *)
(* reference count: owned references created minus Py_XDECREF calls        *)
(* applied.  An object is deallocated when a decrement brings rc[o] to 0,  *)
(* and a decrement applied after that drives the ledger below 0.           *)
(* Memory of the method table is a set of blocks; an address is a pair     *)
(* <<block, offset>>.                                                      *)
(***************************************************************************)
EXTENDS Integers, Sequences, FiniteSets, Bags, TLC

\* ---------------------------------------------------------------- bounds
MaxMethods == 3      \* AddMethod calls explored
MaxWrapped == 2      \* foreign objects the host creates and wraps itself
MaxScripts == 1      \* scripts loaded
MaxCalls   == 1      \* call_function invocations that reach the callee
NumHandles == 2      \* Objects of the host program alive at one time
MaxArgs    == 2      \* arguments of one call_function

\* foreign objects ever allocated: a wrapped object; a module with two
\* attributes; per call a tuple, a result, and per argument the object the
\* object allocated for it
MaxObj == MaxWrapped + 3 * MaxScripts + MaxCalls * (2 + MaxArgs)

\* ------------------------------------------------------------- constants
NULL == 0

VARIABLES
    v_Defs,        \* MethodDefinitions::v_Defs, the descriptor array
    v_buf,         \* block that holds v_Defs' elements (v_Defs.data())
    v_cap,         \* capacity of that block
    MethodNames,   \* MethodDefinitions::MethodNames, list nodes
    MethodDocs,    \* MethodDefinitions::MethodDocs, list nodes
    nextBlock,     \* next unused memory block
    added,         \* history: one record per AddMethod call
    owners,        \* the owner groups (control blocks) of the live Objects
    empties,       \* live Objects whose py_obj is empty
    rc,            \* ob_refcnt of each foreign object (a ledger, see above)
    kind,          \* what each foreign object is
    refs,          \* references an object owns: tuple slots, module dict
    nextObj,       \* next unused foreign object
    last,          \* history: the last handle operation and its outcome
    crashed        \* the process was killed by a use of freed memory

mdVars  == <<v_Defs, v_buf, v_cap, MethodNames, MethodDocs, nextBlock, added>>
objVars == <<owners, empties, rc, kind, refs, nextObj, last, crashed>>
vars    == <<v_Defs, v_buf, v_cap, MethodNames, MethodDocs, nextBlock, added,
             owners, empties, rc, kind, refs, nextObj, last, crashed>>

\* ===================================================== MethodDefinitions
NullAddr == <<0, 0>>

\* a terminator whose flags are not zero
SentinelFlagged == [ml_name |-> NullAddr, ml_meth |-> NULL, ml_flags |-> 1, ml_doc |-> NullAddr]

\* { NULL, NULL, 0, } : the null terminator
Sentinel == [ml_name |-> NullAddr, ml_meth |-> NULL, ml_flags |-> 0, ml_doc |-> NullAddr]

MethodStrs  == {"a", "b"}
DocStrs     == {"", "doc"}
FnPtrs      == {NULL, 1}
FlagValues  == {0, 1}

\* v_Defs(2, {...}) : a table that starts with two terminators
MethodDefinitionsCtorTwo == <<Sentinel, Sentinel>>

\* MethodDefinitions() : v_Defs(1, { NULL, NULL, 0, })
MethodDefinitionsCtor == <<Sentinel>>

\* a contiguous container: push_back moves every element to a new block
VectorPushBack(lst, s, b) ==
    [i \in 1..(Len(lst) + 1) |->
        [addr |-> <<b, i>>, str |-> IF i <= Len(lst) THEN lst[i].str ELSE s]]

\* std::list<std::string>::push_back : a new node in its own block b, the
\* existing nodes stay where they are
ListPushBack(lst, s, b) == Append(lst, [addr |-> <<b, 0>>, str |-> s])

\* std::list::back().c_str()
BackCStr(lst) == lst[Len(lst)].addr

Dangling == "<dangling>"

\* the characters a const char * points at
Deref(a) ==
    LET nodes == {MethodNames[i] : i \in 1..Len(MethodNames)}
                 \cup {MethodDocs[i] : i \in 1..Len(MethodDocs)}
        hit   == {n \in nodes : n.addr = a}
    IN  IF hit = {} THEN Dangling ELSE (CHOOSE n \in hit : TRUE).str

\* v_Defs.insert(v_Defs.end() - 1, d)
InsertBeforeLast(v, d) == SubSeq(v, 1, Len(v) - 1) \o <<d, v[Len(v)]>>

\* PyMethodDef * ptr() { return v_Defs.data(); }
ptr == <<v_buf, 1>>

\* size_t AddMethod(std::string name, PyCFunction fnPtr, int flags, std::string docs)
AddMethod(name, fnPtr, flags, docs) ==
    /\ Len(added) < MaxMethods
    /\ LET names == ListPushBack(MethodNames, name, nextBlock)
           docsL == ListPushBack(MethodDocs, docs, nextBlock + 1)
           def   == [ml_name |-> BackCStr(names), ml_meth |-> fnPtr,
                     ml_flags |-> flags, ml_doc |-> BackCStr(docsL)]
           pos   == Len(v_Defs) - 1          \* 0-based index of the new entry
           grow  == Len(v_Defs) = v_cap      \* the array is full: reallocate
       IN  /\ MethodNames' = names
           /\ MethodDocs' = docsL
           /\ v_Defs' = InsertBeforeLast(v_Defs, def)
           /\ \E c \in {Len(v_Defs) + 1, 2 * Len(v_Defs)} :
                 /\ v_cap' = IF grow THEN c ELSE v_cap
           /\ v_buf' = IF grow THEN nextBlock + 2 ELSE v_buf
           /\ nextBlock' = nextBlock + 3
           /\ added' = Append(added,
                 [name |-> name, fnPtr |-> fnPtr, flags |-> flags, docs |-> docs,
                  ret |-> pos, nameAddr |-> def.ml_name, docAddr |-> def.ml_doc,
                  buf |-> v_buf'])
    /\ UNCHANGED objVars

\* ================================================================ Object
Obj     == 1..MaxObj
Names   == {"f", "x", "nope"}          \* attribute names the host asks for
Scripts == {"missing", "syntax_error", "exec_error", "valid"}
Natives == {1, 2}                      \* native values passed as arguments

NoKind     == [k |-> "none", v |-> 0]
NoOp == [op |-> "none", obj |-> NULL, name |-> "", args |-> <<>>, func |-> NULL,
         funcRc |-> 0, tup |-> NULL, items |-> <<>>, tuple |-> <<>>, raised |-> FALSE,
         err |-> "", msg |-> <<>>, ret |-> NULL, res |-> FALSE,
         shared |-> FALSE]

\* the foreign heap as one value, threaded through the steps of a handler
Heap == [rc |-> rc, kind |-> kind, refs |-> refs, next |-> nextObj]

SetHeap(hp) ==
    /\ rc' = hp.rc
    /\ kind' = hp.kind
    /\ refs' = hp.refs
    /\ nextObj' = hp.next

NumKind(k) == Cardinality({o \in Obj : kind[o].k = k})

\* a new foreign object, returned to the caller as one owned reference
NewObject(hp, k, rs) ==
    [hp EXCEPT !.rc[hp.next] = 1, !.kind[hp.next] = k, !.refs[hp.next] = rs,
               !.next = @ + 1]

\* the memory of a deallocated object: a tuple's slots and a marshalled
\* value are cleared (nothing outside call_function ever points at them);
\* every other object still reads as it did
Scrub(hp, o) ==
    IF hp.kind[o].k \in {"tuple", "value"}
    THEN [hp EXCEPT !.kind[o].v = 0, !.refs[o] = <<>>]
    ELSE hp

\* Py_XDECREF(obj): nothing on NULL; at zero the object is deallocated and
\* gives up the references it owns
Decrement(hp, o) == [hp EXCEPT !.rc[o] = @ - 1]

RECURSIVE Py_XDECREF(_, _)
RECURSIVE DecrefEach(_, _)
Py_XDECREF(hp, o) ==
    IF o = NULL THEN hp
    ELSE IF hp.rc[o] = 1
         THEN DecrefEach(Scrub(Decrement(hp, o), o), hp.refs[o])
         ELSE Decrement(hp, o)

DecrefEach(hp, s) ==
    IF s = <<>> THEN hp ELSE DecrefEach(Py_XDECREF(hp, Head(s)), Tail(s))

\* a deleter that forgets to release
PyObjectDeleterLeak(hp, obj) == hp

\* struct PyObjectDeleter { void operator()(PyObject *obj) { Py_XDECREF(obj); } }
PyObjectDeleter(hp, obj) == Py_XDECREF(hp, obj)

\* PyObject_GetAttrString: a new reference to the attribute, or NULL
AttrIndex(name) == IF name = "f" THEN 1 ELSE IF name = "x" THEN 2 ELSE 0

PyObject_GetAttrString(hp, o, name) ==
    IF o # NULL /\ hp.kind[o].k = "module" /\ AttrIndex(name) # 0
    THEN hp.refs[o][AttrIndex(name)]
    ELSE NULL

Py_INCREF(hp, o) == IF o = NULL THEN hp ELSE [hp EXCEPT !.rc[o] = @ + 1]

PyCallable_Check(hp, o) == o # NULL /\ hp.kind[o].k = "func"

\* PyTuple_New(n): a new tuple of n empty slots
RECURSIVE EmptySlots(_)
EmptySlots(n) == IF n = 0 THEN <<>> ELSE Append(EmptySlots(n - 1), NULL)

PyTuple_New(hp, n) == NewObject(hp, [k |-> "tuple", v |-> 0], EmptySlots(n))

PyTuple_Size(hp, t) == Len(hp.refs[t])

\* PyTuple_SetItem(t, i, o): steals the reference to o; out of range it
\* releases o and stores nothing
PyTuple_SetItem(hp, t, i, o) ==
    IF i < 0 \/ i >= Len(hp.refs[t])
    THEN Py_XDECREF(hp, o)
    ELSE Py_XDECREF([hp EXCEPT !.refs[t][i + 1] = o], hp.refs[t][i + 1])

\* alloc_pyobject(value): a new foreign object that represents value
alloc_pyobject(hp, v) == NewObject(hp, [k |-> "value", v |-> v], <<>>)

\* ------------------------------------------------------------- handles
\* Object::py_obj is a std::shared_ptr<PyObject>.  The Objects that share
\* one pointer form an owner group: [ptr |-> the pointer, use |-> its
\* use_count(), shared |-> history: the group has had a second owner].
\* owners is the bag of the groups; Objects of one group are not told apart.
\* An Object whose py_obj is empty belongs to no group.
EmptyHandle == [ptr |-> NULL, use |-> 0, shared |-> FALSE]

Groups == BagToSet(owners)

\* the Objects an operation can be applied to, each named by its group
Handles == Groups \cup (IF empties > 0 THEN {EmptyHandle} ELSE {})

RECURSIVE SumUse(_)
SumUse(S) ==
    IF S = {} THEN 0
    ELSE owners[CHOOSE x \in S : TRUE] * (CHOOSE x \in S : TRUE).use
             + SumUse(S \ {CHOOSE x \in S : TRUE})

\* live Objects
NumObjects == empties + SumUse(Groups)

Room == NumObjects < NumHandles

\* PyObject *get() const { return py_obj.get(); }
get(h) == h.ptr

\* pyshared_ptr make_pyshared(PyObject *obj): a new owner group around obj,
\* no increment
make_pyshared(obj) == [ptr |-> obj, use |-> 1, shared |-> FALSE]

AddOwner(g) == owners (+) SetToBag({g})
DropOwner(g) == owners (-) SetToBag({g})

\* Object::Object() : wraps no object
DefaultConstruct ==
    /\ ~crashed
    /\ Room
    /\ empties' = empties + 1
    /\ last' = [NoOp EXCEPT !.op = "Object()"]
    /\ UNCHANGED <<owners, rc, kind, refs, nextObj, crashed>>
    /\ UNCHANGED mdVars

\* Object::Object(PyObject *obj) on a reference the caller owns: a new
\* foreign object (fresh) or the NULL pointer.  No Py_INCREF.
Construct(fresh) ==
    /\ ~crashed
    /\ Room
    /\ fresh => NumKind("object") < MaxWrapped
    /\ LET obj == IF fresh THEN nextObj ELSE NULL
           hp  == IF fresh THEN NewObject(Heap, [k |-> "object", v |-> 0], <<>>) ELSE Heap
       IN  /\ SetHeap(hp)
           /\ owners' = AddOwner(make_pyshared(obj))
           /\ last' = [NoOp EXCEPT !.op = "Object(PyObject*)", !.ret = obj]
    /\ UNCHANGED <<empties, crashed>>
    /\ UNCHANGED mdVars

\* Object(const Object &): the copy joins h's owner group
Copy(h) ==
    /\ ~crashed
    /\ Room
    /\ IF h = EmptyHandle
       THEN /\ empties' = empties + 1
            /\ UNCHANGED owners
       ELSE /\ owners' = DropOwner(h) (+)
                           SetToBag({[h EXCEPT !.use = @ + 1, !.shared = TRUE]})
            /\ UNCHANGED empties
    /\ last' = [NoOp EXCEPT !.op = "copy", !.obj = get(h)]
    /\ UNCHANGED <<rc, kind, refs, nextObj, crashed>>
    /\ UNCHANGED mdVars

\* ~Object(): py_obj drops its share; the group's last owner runs the deleter
Destroy(h) ==
    /\ ~crashed
    /\ LET isLast == h.use = 1
       IN  /\ IF h = EmptyHandle
              THEN /\ empties' = empties - 1
                   /\ UNCHANGED owners
              ELSE /\ owners' = IF isLast THEN DropOwner(h)
                                ELSE DropOwner(h) (+) SetToBag({[h EXCEPT !.use = @ - 1]})
                   /\ UNCHANGED empties
           /\ SetHeap(IF isLast THEN PyObjectDeleter(Heap, get(h)) ELSE Heap)
           /\ last' = [NoOp EXCEPT !.op = "~Object", !.obj = get(h),
                                   !.res = isLast, !.shared = h.shared]
    /\ UNCHANGED crashed
    /\ UNCHANGED mdVars

RuntimeError == "runtime_error"

\* Object get_attr(const std::string &name)
GetAttr(h, name) ==
    /\ ~crashed
    /\ LET obj == PyObject_GetAttrString(Heap, get(h), name)
       IN  IF obj = NULL
           THEN /\ last' = [NoOp EXCEPT !.op = "get_attr", !.obj = get(h), !.name = name,
                                        !.err = RuntimeError,
                                        !.msg = <<"Unable to find attribute ", name>>]
                /\ UNCHANGED <<owners, rc, kind, refs, nextObj>>
           ELSE /\ Room
                /\ SetHeap(Py_INCREF(Heap, obj))
                /\ owners' = AddOwner(make_pyshared(obj))
                /\ last' = [NoOp EXCEPT !.op = "get_attr", !.obj = get(h), !.name = name,
                                        !.ret = obj]
    /\ UNCHANGED <<empties, crashed>>
    /\ UNCHANGED mdVars

\* has_attr that answers for the wrapped pointer being non-null only
has_attr_nonnull(hp, o, name) == o # NULL

\* what has_attr answers: the retrieval get_attr makes, with its failure
\* turned into false
has_attr_result(hp, o, name) == PyObject_GetAttrString(hp, o, name) # NULL

\* bool has_attr(const std::string &name): never fails; the attribute it
\* retrieved is released again
HasAttr(h, name) ==
    /\ ~crashed
    /\ LET obj == PyObject_GetAttrString(Heap, get(h), name)
       IN  /\ SetHeap(PyObjectDeleter(Py_INCREF(Heap, obj), obj))
           /\ last' = [NoOp EXCEPT !.op = "has_attr", !.obj = get(h), !.name = name,
                                   !.res = has_attr_result(Heap, get(h), name)]
    /\ UNCHANGED <<owners, empties, crashed>>
    /\ UNCHANGED mdVars

\* a loader that hands back a module whatever the path
ScriptLoadsAlways(path) == TRUE

\* whether the foreign runtime can load and run the script at path
ScriptLoads(path) == path = "valid"

\* static Object from_script(const std::string &script_path): the module
\* object of the script, with its top-level attributes f (callable) and x
FromScript(path) ==
    /\ ~crashed
    /\ ScriptLoads(path) => Room /\ NumKind("module") < MaxScripts
    /\ IF ~ScriptLoads(path)
       THEN /\ last' = [NoOp EXCEPT !.op = "from_script", !.name = path,
                                    !.err = RuntimeError,
                                    !.msg = <<"Failed to load script ", path>>]
            /\ UNCHANGED <<owners, rc, kind, refs, nextObj>>
       ELSE LET f  == nextObj
                x  == nextObj + 1
                m  == nextObj + 2
                h1 == NewObject(Heap, [k |-> "func", v |-> 0], <<>>)
                h2 == NewObject(h1, [k |-> "attr", v |-> 0], <<>>)
                h3 == NewObject(h2, [k |-> "module", v |-> 0], <<f, x>>)
            IN  /\ SetHeap(h3)
                /\ owners' = AddOwner(make_pyshared(m))
                /\ last' = [NoOp EXCEPT !.op = "from_script", !.name = path, !.ret = m]
    /\ UNCHANGED <<empties, crashed>>
    /\ UNCHANGED mdVars

\* ------------------------------------------------ call_function and helpers
\* An argument of call_function is [raw |-> TRUE, x |-> a PyObject*] or
\* [raw |-> FALSE, x |-> a native value].

\* the slot of the head argument, counted from the wrong end by one
HeadIndexOffByOne(size, nTail) == size - nTail

\* PyTuple_Size(tup.get()) - sizeof...(tail) - 1
HeadIndex(size, nTail) == size - nTail - 1

\* an add_tuple_var that takes a reference of its own before storing
add_tuple_var_incref(hp, tup, i, pobj) == PyTuple_SetItem(Py_INCREF(hp, pobj), tup, i, pobj)

\* void add_tuple_var(pyunique_ptr &tup, Py_ssize_t i, PyObject *pobj)
add_tuple_var(hp, tup, i, pobj) == PyTuple_SetItem(hp, tup, i, pobj)

\* template<class T> void add_tuple_var(pyunique_ptr &tup, Py_ssize_t i, const T &data)
add_tuple_var_T(hp, tup, i, data) ==
    PyTuple_SetItem(alloc_pyobject(hp, data), tup, i, hp.next)

\* void add_tuple_vars(pyunique_ptr &tup, PyObject *arg)
add_tuple_vars_PyObject(hp, tup, arg) ==
    add_tuple_var(hp, tup, PyTuple_Size(hp, tup) - 1, arg)

\* template<typename Arg> void add_tuple_vars(pyunique_ptr &tup, const Arg &arg)
add_tuple_vars_Arg(hp, tup, arg) ==
    add_tuple_var(alloc_pyobject(hp, arg), tup, PyTuple_Size(hp, tup) - 1, hp.next)

\* template<typename First, typename... Rest> add_tuple_vars(tup, head, tail...)
\* together with the overload the compiler selects for each pack
RECURSIVE add_tuple_vars(_, _, _)
add_tuple_vars(hp, tup, args) ==
    IF Len(args) = 1
    THEN IF args[1].raw
         THEN add_tuple_vars_PyObject(hp, tup, args[1].x)
         ELSE add_tuple_vars_Arg(hp, tup, args[1].x)
    ELSE add_tuple_vars(
             IF args[1].raw
             THEN add_tuple_var(hp, tup,
                      HeadIndex(PyTuple_Size(hp, tup), Len(args) - 1), args[1].x)
             ELSE add_tuple_var_T(hp, tup,
                      HeadIndex(PyTuple_Size(hp, tup), Len(args) - 1), args[1].x),
             tup, Tail(args))

\* PyObject_CallObject(func, tup): NULL when func is not callable or the
\* callee raises, else a new reference to a result object
PyObject_CallObject(hp, func, raised) ==
    IF ~PyCallable_Check(hp, func) \/ raised THEN hp
    ELSE NewObject(hp, [k |-> "result", v |-> 0], <<>>)

CallResult(hp, func, raised) ==
    IF ~PyCallable_Check(hp, func) \/ raised THEN NULL ELSE hp.next

\* what the callee sees in a slot of its argument tuple: the value a
\* marshalled object stands for, else the object itself
Repr(hp, o) ==
    IF o # NULL /\ hp.kind[o].k = "value"
    THEN [raw |-> FALSE, x |-> hp.kind[o].v]
    ELSE [raw |-> TRUE, x |-> o]

\* a check that lets a missing result through
CallFailedNever(ret) == FALSE

\* if (!ret)
CallFailed(ret) == ret = NULL

\* the body of call_function from PyObject_CallObject on, then the
\* destructors of tup and func (in that order)
InvokeAndReturn(hp, h, name, args, func, funcRc, tup, raised) ==
    LET ret   == CallResult(hp, func, raised)
        h1    == PyObject_CallObject(hp, func, raised)
        h2    == PyObjectDeleter(h1, tup)
        h3    == PyObjectDeleter(h2, func)
        entry == [NoOp EXCEPT !.op = "call_function", !.obj = get(h), !.name = name,
                              !.args = args, !.func = func, !.funcRc = funcRc,
                              !.tup = tup, !.items = hp.refs[tup],
                              !.tuple = [i \in 1..Len(hp.refs[tup]) |->
                                            Repr(hp, hp.refs[tup][i])],
                              !.raised = raised, !.ret = ret]
    IN  /\ SetHeap(h3)
        /\ IF CallFailed(ret)
           THEN /\ last' = [entry EXCEPT !.err = RuntimeError,
                                         !.msg = <<"Failed to call function ", name>>]
                /\ UNCHANGED owners
           ELSE /\ Room
                /\ owners' = AddOwner(make_pyshared(ret))
                /\ last' = entry

\* PyObject *load_function(const std::string &name) found nothing
LoadFunctionFailed(h, name, args) ==
    /\ last' = [NoOp EXCEPT !.op = "call_function", !.obj = get(h), !.name = name,
                            !.err = RuntimeError,
                            !.msg = <<"Failed to find function">>]
    /\ UNCHANGED owners

\* what the caller writes for one argument: a native value or the pointer
\* of one of its Objects, g.get()
ArgValues ==
    [raw : {FALSE}, x : Natives]
        \cup [raw : {TRUE}, x : {get(g) : g \in Groups} \ {NULL}]

ArgLists == UNION {[1..n -> ArgValues] : n \in 1..MaxArgs}

\* template<typename... Args> Object call_function(name, args...), one or
\* more arguments
CallFunction(h, name, args, raised) ==
    /\ ~crashed
    /\ NumKind("tuple") < MaxCalls
    /\ LET func == PyObject_GetAttrString(Heap, get(h), name)
       IN  IF func = NULL
           THEN /\ UNCHANGED <<rc, kind, refs, nextObj>>
                /\ LoadFunctionFailed(h, name, args)
           ELSE LET h1  == Py_INCREF(Heap, func)            \* pyunique_ptr func
                    tup == h1.next
                    h2  == PyTuple_New(h1, Len(args))       \* pyunique_ptr tup
                    h3  == add_tuple_vars(h2, tup, args)
                IN  InvokeAndReturn(h3, h, name, args, func, rc[func], tup, raised)
    /\ UNCHANGED <<empties, crashed>>
    /\ UNCHANGED mdVars

\* call_function with every choice of arguments; when load_function finds
\* nothing the outcome does not depend on them and one choice stands for all
CallFunctionAny ==
    /\ ~crashed
    /\ NumKind("tuple") < MaxCalls
    /\ \E h \in Handles, name \in Names :
          IF PyObject_GetAttrString(Heap, get(h), name) = NULL
          THEN CallFunction(h, name, <<[raw |-> FALSE, x |-> 1]>>, FALSE)
          ELSE \E args \in ArgLists, raised \in BOOLEAN :
                  CallFunction(h, name, args, raised)

\* Object call_function(const std::string &name): no arguments
CallFunction0(h, name, raised) ==
    /\ ~crashed
    /\ NumKind("tuple") < MaxCalls
    /\ LET func == PyObject_GetAttrString(Heap, get(h), name)
       IN  IF func = NULL
           THEN /\ UNCHANGED <<rc, kind, refs, nextObj>>
                /\ LoadFunctionFailed(h, name, <<>>)
           ELSE LET h1  == Py_INCREF(Heap, func)
                    tup == h1.next
                    h2  == PyTuple_New(h1, 0)
                IN  InvokeAndReturn(h2, h, name, <<>>, func, rc[func], tup, raised)
    /\ UNCHANGED <<empties, crashed>>
    /\ UNCHANGED mdVars

\* a live handle whose object has been deallocated
DanglingHandles == {g \in Groups : get(g) # NULL /\ rc[get(g)] <= 0}

\* any use of a deallocated object is undefined: the ledger above follows
\* the run in which the memory still reads as before, this step the run in
\* which the process is killed
Crash ==
    /\ ~crashed
    /\ DanglingHandles # {}
    /\ crashed' = TRUE
    /\ UNCHANGED <<owners, empties, rc, kind, refs, nextObj, last>>
    /\ UNCHANGED mdVars

\* ======================================================= specifications
Init ==
    /\ v_Defs = MethodDefinitionsCtor
    /\ v_buf = 1
    /\ v_cap = Len(v_Defs)
    /\ MethodNames = <<>>
    /\ MethodDocs = <<>>
    /\ nextBlock = 2
    /\ added = <<>>
    /\ owners = EmptyBag
    /\ empties = 0
    /\ rc = [o \in Obj |-> 0]
    /\ kind = [o \in Obj |-> NoKind]
    /\ refs = [o \in Obj |-> <<>>]
    /\ nextObj = 1
    /\ last = NoOp
    /\ crashed = FALSE

\* the method table
NextMD ==
    \E name \in MethodStrs, fnPtr \in FnPtrs, flags \in FlagValues, docs \in DocStrs :
        AddMethod(name, fnPtr, flags, docs)

SpecMD == Init /\ [][NextMD]_vars

\* handles that are only constructed, copied and destroyed
NextRC ==
    \/ DefaultConstruct
    \/ \E fresh \in BOOLEAN : Construct(fresh)
    \/ \E h \in Handles : Copy(h)
    \/ \E h \in Handles : Destroy(h)

SpecRC == Init /\ [][NextRC]_vars

\* handles and attribute access
NextAttr ==
    \/ DefaultConstruct
    \/ \E fresh \in BOOLEAN : Construct(fresh)
    \/ \E h \in Handles : Copy(h)
    \/ \E h \in Handles : Destroy(h)
    \/ \E h \in Handles, name \in Names : GetAttr(h, name)
    \/ \E h \in Handles, name \in Names : HasAttr(h, name)
    \/ \E path \in Scripts : FromScript(path)

SpecAttr == Init /\ [][NextAttr]_vars

\* handles and calls (attribute retrieval is covered by SpecAttr)
Next ==
    \/ \E fresh \in BOOLEAN : Construct(fresh)
    \/ \E h \in Handles : Copy(h)
    \/ \E h \in Handles : Destroy(h)
    \/ \E path \in Scripts : FromScript(path)
    \/ CallFunctionAny
    \/ \E h \in Handles, name \in Names, raised \in BOOLEAN : CallFunction0(h, name, raised)
    \/ Crash

Spec == Init /\ [][Next]_vars

\* ================================================================ claims
\* the owner groups that wrap foreign object o
NumOwners(o) == Cardinality({g \in Groups : get(g) = o})

Allocated == 1..(nextObj - 1)

\* C1: a foreign object wrapped from a raw owned reference keeps the count
\* it was handed over with (1) while any copy of its Object is alive, and is
\* decremented exactly once, to 0, when the last copy is destroyed
RefReleasedExactlyOnce ==
    \A o \in Allocated :
        /\ NumOwners(o) <= 1
        /\ rc[o] = IF NumOwners(o) = 1 THEN 1 ELSE 0

\* C1 witness: the last copy of a copied Object has just been destroyed and
\* its object released
RefReleasedWitness ==
    /\ last.op = "~Object"
    /\ last.res
    /\ last.shared
    /\ last.obj # NULL
    /\ rc[last.obj] = 0

\* C2: after M AddMethod calls the table has M+1 entries, the last one has
\* every field null or zero, and no earlier entry has
SentinelAlwaysLast ==
    /\ Len(v_Defs) = Len(added) + 1
    /\ v_Defs[Len(v_Defs)] =
          [ml_name |-> NullAddr, ml_meth |-> NULL, ml_flags |-> 0, ml_doc |-> NullAddr]
    /\ \A i \in 1..(Len(v_Defs) - 1) :
          v_Defs[i] #
             [ml_name |-> NullAddr, ml_meth |-> NULL, ml_flags |-> 0, ml_doc |-> NullAddr]

\* C2 witness: two methods added, one of them with a null function pointer
\* and zero flags
SentinelWitness ==
    /\ Len(added) >= 2
    /\ \E i \in 1..Len(added) : v_Defs[i].ml_meth = NULL /\ v_Defs[i].ml_flags = 0

\* C3: the name and documentation pointers of every inserted descriptor are
\* the addresses they were when it was inserted, and the characters there
\* are still the strings that were passed
StringAddressesStable ==
    \A k \in 1..Len(added) :
        /\ v_Defs[k].ml_name = added[k].nameAddr
        /\ v_Defs[k].ml_doc = added[k].docAddr
        /\ Deref(v_Defs[k].ml_name) = added[k].name
        /\ Deref(v_Defs[k].ml_doc) = added[k].docs

\* C3 witness: a later insertion has moved the descriptor array since the
\* first method was added
StringAddressesWitness ==
    /\ Len(added) >= 2
    /\ added[1].buf # v_buf

\* C4: the k-th AddMethod call returned k-1, the entry at the returned index
\* holds that call's function pointer, flags, name and documentation, and
\* the terminator follows the newest entry
AddMethodReturnsIndex ==
    /\ \A k \in 1..Len(added) :
          /\ added[k].ret = k - 1
          /\ added[k].ret + 1 \in 1..Len(v_Defs)
          /\ v_Defs[added[k].ret + 1].ml_meth = added[k].fnPtr
          /\ v_Defs[added[k].ret + 1].ml_flags = added[k].flags
          /\ Deref(v_Defs[added[k].ret + 1].ml_name) = added[k].name
          /\ Deref(v_Defs[added[k].ret + 1].ml_doc) = added[k].docs
    /\ Len(added) > 0 => added[Len(added)].ret + 2 = Len(v_Defs)

\* C4 witness: two calls with different arguments
AddMethodWitness ==
    /\ Len(added) >= 2
    /\ added[2].ret = 1
    /\ added[1].name # added[2].name
    /\ added[1].fnPtr # added[2].fnPtr

\* C5: the tuple handed to the callee has as many slots as call_function got
\* arguments and slot i holds the representation of argument i
ArgumentTupleMatches ==
    (last.op = "call_function" /\ last.func # NULL) =>
        /\ Len(last.tuple) = Len(last.args)
        /\ \A i \in 1..Len(last.args) : last.tuple[i] = last.args[i]

\* C5 witness: a call with two different arguments, a native value first
ArgumentTupleWitness ==
    /\ last.op = "call_function"
    /\ last.func # NULL
    /\ Len(last.args) = 2
    /\ ~last.args[1].raw
    /\ last.args[1] # last.args[2]

\* C6: call_function throws a runtime error and returns no handle when the
\* attribute is missing, is not callable, or raises (then the message names
\* the attribute); otherwise it returns a handle that owns the result
CallFunctionErrors ==
    last.op = "call_function" =>
        IF \/ PyObject_GetAttrString(Heap, last.obj, last.name) = NULL
           \/ ~PyCallable_Check(Heap, PyObject_GetAttrString(Heap, last.obj, last.name))
           \/ last.raised
        THEN /\ last.err = RuntimeError
             /\ last.ret = NULL
             /\ PyObject_GetAttrString(Heap, last.obj, last.name) # NULL
                   => last.msg = <<"Failed to call function ", last.name>>
        ELSE /\ last.err = ""
             /\ last.ret # NULL
             /\ kind[last.ret].k = "result"
             /\ make_pyshared(last.ret) \in Groups

\* C6 witness: a callable attribute was called and raised
CallFunctionErrorsWitness ==
    /\ last.op = "call_function"
    /\ PyCallable_Check(Heap, last.func)
    /\ last.raised
    /\ last.err = RuntimeError

\* C7: has_attr never fails and answers true exactly when get_attr on the
\* same object and name returns a handle; get_attr throws a runtime error
\* otherwise; on an empty handle has_attr answers false
HasAttrIffGetAttr ==
    /\ last.op = "has_attr" =>
          /\ last.err = ""
          /\ last.res = (PyObject_GetAttrString(Heap, last.obj, last.name) # NULL)
          /\ last.obj = NULL => ~last.res
    /\ last.op = "get_attr" =>
          /\ (last.err = "") = (PyObject_GetAttrString(Heap, last.obj, last.name) # NULL)
          /\ last.err # "" => last.err = RuntimeError /\ last.ret = NULL
          /\ last.err = "" => last.ret = PyObject_GetAttrString(Heap, last.obj, last.name)

\* C7 witness: has_attr was asked on an empty handle
HasAttrWitness ==
    /\ last.op = "has_attr"
    /\ last.obj = NULL
    /\ ~last.res
    /\ empties > 0

\* C8: from_script throws a runtime error and yields no handle for every
\* script that does not load; for a valid one it returns a handle to a
\* module that has a top-level attribute
FromScriptOutcome ==
    last.op = "from_script" =>
        IF last.name = "valid"
        THEN /\ last.err = ""
             /\ last.ret # NULL
             /\ make_pyshared(last.ret) \in Groups
             /\ \E n \in Names : PyObject_GetAttrString(Heap, last.ret, n) # NULL
        ELSE /\ last.err = RuntimeError
             /\ last.ret = NULL

\* C8 witness: a path that does not exist was given
FromScriptWitness ==
    /\ last.op = "from_script"
    /\ last.name = "missing"
    /\ last.err = RuntimeError

\* C9: no foreign object is decremented below zero or released while a live
\* handle wraps it
NoOverRelease ==
    \A o \in Allocated :
        /\ rc[o] >= 0
        /\ NumOwners(o) > 0 => rc[o] >= 1

====
